---- MODULE Spec2Model ----
(***************************************************************************)
(* react-native-database: the Database wrapper around a Realm store, which *)
(* sends a change notification to every registered listener, and the       *)
(* Settings key/value class built on it.                                   *)
(*                                                                         *)
(* The Realm store is an external library: its operations (create, upsert, *)
(* delete, deleteAll, objects/filtered, empty, write) are modelled by the  *)
(* Realm* operators from the store capability the specification lists.     *)
(* Every Database and Settings method is an operator that takes the        *)
(* instance (`this`) and the call's arguments and yields an outcome:       *)
(* the instance afterwards, the events the call produced in order (store   *)
(* calls, pre-deletion hooks, listener invocations), the returned value    *)
(* and the error thrown, if any.                                           *)
(***************************************************************************)
EXTENDS Integers, Sequences, FiniteSets, TLC

VARIABLES
    realm,      \* this.realm: the store, [tables, inTransaction]
    listeners,  \* this.listeners: the Map's keys in insertion order
    callbacks,  \* this.listeners: the callback under each key
    nextId,     \* the number of ids generateUUID has handed out so far, plus 1
    last,       \* the last call made on the Database / Settings and its result
    events      \* what the last call did, in order

vars == <<realm, listeners, callbacks, nextId, last, events>>

----------------------------------------------------------------------------
(* Bounds                                                                  *)

\* The number of addListener calls in a run.
MaxListeners == 2

\* The number of callbacks one dispatch pass is followed for: more than any
\* pass that ends invokes.
MaxDispatch == 6

----------------------------------------------------------------------------
(* JavaScript values                                                       *)

\* null and undefined where a string is expected (a primary key, a field).
NULL == "<null>"
UNDEFINED == "<undefined>"

Str(s) == [tag |-> "string", v |-> s]
Null == [tag |-> "null"]
Undefined == [tag |-> "undefined"]
Array(items) == [tag |-> "array", items |-> items]
\* A plain JavaScript object literal.
Plain(fields) == [tag |-> "plain", fields |-> fields]
\* A Realm.Object: a live view of one row; `fields` is what reading it gives
\* at the moment the value is built.
RealmObject(type, row) == [tag |-> "object", type |-> type, fields |-> row]

----------------------------------------------------------------------------
(* The schema: README's User and Settings.js's SettingSchema                *)

Types == {"User", "Setting"}

PrimaryKeyOf(type) == IF type = "User" THEN "id" ELSE "key"

FieldsOf(type) == IF type = "User" THEN {"id", "username"} ELSE {"key", "value"}

\* username: { type: 'string', default: 'placeholderUsername' }
DefaultsOf(type) ==
    IF type = "User" THEN [f \in {"username"} |-> "placeholderUsername"]
    ELSE [f \in {} |-> ""]

\* The record classes of the client that define a destructor method.
DestructorTypes == {"User"}

\* src/constants.js is not part of the sources: the four change kinds.
CHANGE_TYPES ==
    [CREATE |-> "create", UPDATE |-> "update", DELETE |-> "delete", WIPE |-> "wipe"]

----------------------------------------------------------------------------
(* The Realm store                                                          *)

EmptyTables == [t \in Types |-> <<>>]

NewRealm == [tables |-> EmptyTables, inTransaction |-> FALSE]

\* realm.objects(type).filtered('<field> == $0', value): the rows in store order.
RealmFiltered(rows, field, value) ==
    SelectSeq(rows, LAMBDA row : field \in DOMAIN row /\ row[field] = value)

RealmHas(r, type, key) == RealmFiltered(r.tables[type], PrimaryKeyOf(type), key) # <<>>

\* The row realm.create builds for a new record: the given properties, the
\* schema's defaults for the rest.
RealmNewRow(type, properties) ==
    [f \in FieldsOf(type) |->
        IF f \in DOMAIN properties THEN properties[f] ELSE DefaultsOf(type)[f]]

\* An upsert on an existing row overwrites the given properties only.
RealmMergeRow(row, properties) ==
    [f \in DOMAIN row |-> IF f \in DOMAIN properties THEN properties[f] ELSE row[f]]

\* realm.create(type, properties, upsert): [err, realm, row].
RealmCreate(r, type, properties, upsert) ==
    LET key == properties[PrimaryKeyOf(type)]
        rows == r.tables[type]
    IN  IF ~r.inTransaction
        THEN [err |-> "NotInTransaction", realm |-> r, row |-> <<>>]
        ELSE IF RealmHas(r, type, key)
        THEN IF upsert
             THEN LET merged == [i \in 1..Len(rows) |->
                                    IF rows[i][PrimaryKeyOf(type)] = key
                                    THEN RealmMergeRow(rows[i], properties)
                                    ELSE rows[i]]
                  IN  [err |-> "",
                       realm |-> [r EXCEPT !.tables[type] = merged],
                       row |-> RealmFiltered(merged, PrimaryKeyOf(type), key)[1]]
             ELSE [err |-> "ConstraintViolation", realm |-> r, row |-> <<>>]
        ELSE LET row == RealmNewRow(type, properties)
             IN  [err |-> "",
                  realm |-> [r EXCEPT !.tables[type] = Append(rows, row)],
                  row |-> row]

\* realm.delete(objects): removes the rows the objects are views of.
RealmDelete(r, objects) ==
    IF ~r.inTransaction
    THEN [err |-> "NotInTransaction", realm |-> r]
    ELSE [err |-> "",
          realm |-> [r EXCEPT !.tables = [t \in Types |->
              SelectSeq(r.tables[t], LAMBDA row :
                  ~\E i \in 1..Len(objects) :
                      /\ objects[i].type = t
                      /\ objects[i].fields[PrimaryKeyOf(t)] = row[PrimaryKeyOf(t)])]]]

\* realm.deleteAll()
RealmDeleteAll(r) ==
    IF ~r.inTransaction
    THEN [err |-> "NotInTransaction", realm |-> r]
    ELSE [err |-> "", realm |-> [r EXCEPT !.tables = EmptyTables]]

\* realm.empty
RealmEmpty(r) == \A t \in Types : r.tables[t] = <<>>

\* realm.write(callback): the transaction's begin, its commit, and its
\* rollback to the store as it was at the begin.
RealmBegin(r) == [r EXCEPT !.inTransaction = TRUE]
RealmCommit(r) == [r EXCEPT !.inTransaction = FALSE]
RealmRollback(r, begun) == [tables |-> begun.tables, inTransaction |-> FALSE]

\* The live objects of a type, as a client holds them.
LiveObjects(r, type) ==
    {RealmObject(type, r.tables[type][i]) : i \in 1..Len(r.tables[type])}

----------------------------------------------------------------------------
(* Outcomes and events                                                      *)

\* A call on the store, with the record type it names ("" when it names none).
StoreCall(name, type) == [ev |-> "store", call |-> name, type |-> type]
Notify(id, args) == [ev |-> "notify", listener |-> id, args |-> args]
Destructor(obj) == [ev |-> "destructor", object |-> obj]
\* A callback's own calls of addListener and removeListener.
Added(id) == [ev |-> "addListener", id |-> id]
\* found: what Map.delete returns, whether the key was there.
Removed(id, found) == [ev |-> "removeListener", id |-> id, found |-> found]

\* The outcome of a call that has not ended after MaxDispatch callbacks of
\* one dispatch pass.
Unfinished == "DispatchUnfinished"

Returned(this, evs, value) == [this |-> this, events |-> evs, ret |-> value, err |-> ""]
Thrown(this, evs, error) == [this |-> this, events |-> evs, ret |-> Undefined, err |-> error]

RECURSIVE Flatten(_)
Flatten(seqs) == IF seqs = <<>> THEN <<>> ELSE Head(seqs) \o Flatten(Tail(seqs))

----------------------------------------------------------------------------
(* The callbacks of the clients                                             *)

\* What a listener callback does with a notification, besides recording it:
\* nothing more; throw; remove the listener of a given id; register a
\* recorder, the first time it is called; register a copy of itself.
Recorder == [kind |-> "record"]
Thrower == [kind |-> "throw"]
Remover(id) == [kind |-> "remove", id |-> id]
Adder == [kind |-> "add"]
Replicator == [kind |-> "replicate"]

\* obj.destructor instanceof Function
HasDestructor(obj) == obj.type \in DestructorTypes

\* Whether the destructor of this object throws: the object says so.
DestructorThrows(obj) == "destructor" \in DOMAIN obj /\ obj.destructor = "throws"

----------------------------------------------------------------------------
(* Database                                                                 *)

\* constructor: a realm and an empty Map of listeners (its keys in insertion
\* order, and the callback under each key).
NewDatabase ==
    [realm |-> NewRealm, listeners |-> <<>>, callbacks |-> <<>>, nextId |-> 1]

getIsEmpty(this) == Returned(this, <<>>, [tag |-> "boolean", v |-> RealmEmpty(this.realm)])

\* src/utilities.js is not part of the sources: an id no earlier call returned.
generateUUID(n) == n

addListener(this, callback) ==
    LET id == generateUUID(this.nextId)
    IN  Returned([this EXCEPT !.listeners = Append(@, id),
                              !.callbacks = (id :> callback) @@ @,
                              !.nextId = @ + 1],
                 <<>>, [tag |-> "id", v |-> id])

\* A removal by position that does not check that the id was found: an
\* absent id takes the last entry out.
removeListener_byPosition(this, id) ==
    LET kept == IF \E i \in 1..Len(this.listeners) : this.listeners[i] = id
                THEN SelectSeq(this.listeners, LAMBDA l : l # id)
                ELSE SubSeq(this.listeners, 1, Len(this.listeners) - 1)
    IN  Returned([this EXCEPT !.listeners = kept,
                              !.callbacks = [l \in {kept[i] : i \in DOMAIN kept} |-> @[l]]],
                 <<>>, Undefined)

\* Map.delete: removes the key if it is there, and never throws.
removeListener(this, id) ==
    Returned([this EXCEPT !.listeners = SelectSeq(@, LAMBDA l : l # id),
                          !.callbacks = [l \in (DOMAIN @) \ {id} |-> @[l]]],
             <<>>, Undefined)

\* callback(...args) of the listener registered under id.
invoke(this, id, args) ==
    LET callback == this.callbacks[id]
        seen == <<Notify(id, args)>>
    IN  CASE callback.kind = "record" -> Returned(this, seen, Undefined)
          [] callback.kind = "throw" -> Thrown(this, seen, "ListenerError")
          [] callback.kind = "remove" ->
                Returned(removeListener(this, callback.id).this,
                         seen \o <<Removed(callback.id,
                                          \E i \in 1..Len(this.listeners) :
                                              this.listeners[i] = callback.id)>>,
                         Undefined)
          [] callback.kind = "add" ->
                LET a == addListener([this EXCEPT !.callbacks[id] = Recorder], Recorder)
                IN  Returned(a.this, seen \o <<Added(a.ret.v)>>, Undefined)
          [] callback.kind = "replicate" ->
                LET a == addListener(this, Replicator)
                IN  Returned(a.this, seen \o <<Added(a.ret.v)>>, Undefined)

\* A forEach over a copy of the Map taken when the pass begins.
RECURSIVE forEach_overCopy(_, _, _, _)
forEach_overCopy(this, args, copy, fuel) ==
    IF copy = <<>> THEN Returned(this, <<>>, Undefined)
    ELSE LET called == invoke([this EXCEPT !.callbacks = (Head(copy)[1] :> Head(copy)[2]) @@ @],
                              Head(copy)[1], args)
             back == [called.this EXCEPT !.callbacks =
                         [l \in {called.this.listeners[i] : i \in DOMAIN called.this.listeners}
                             |-> @[l]]]
             rest == forEach_overCopy(back, args, Tail(copy), fuel)
         IN  IF called.err # "" THEN [called EXCEPT !.this = back]
             ELSE [rest EXCEPT !.events = called.events \o @]

\* A forEach that catches what a callback throws and goes on.
RECURSIVE forEach_catching(_, _, _, _)
forEach_catching(this, args, visited, fuel) ==
    LET pending == SelectSeq(this.listeners, LAMBDA l : l \notin visited)
        called == invoke(this, pending[1], args)
        rest == forEach_catching(called.this, args, visited \cup {pending[1]}, fuel - 1)
    IN  IF pending = <<>> THEN Returned(this, <<>>, Undefined)
        ELSE IF fuel = 0 THEN Thrown(this, <<>>, Unfinished)
        ELSE [rest EXCEPT !.events = called.events \o @]

\* Map.prototype.forEach: visits the entries in insertion order, the Map as
\* it is at each step: an entry deleted before its turn is not visited, one
\* added during the pass is. An exception of a callback ends the pass. The
\* pass is followed for `fuel` callbacks.
RECURSIVE forEach(_, _, _, _)
forEach(this, args, visited, fuel) ==
    LET pending == SelectSeq(this.listeners, LAMBDA l : l \notin visited)
        called == invoke(this, pending[1], args)
        rest == forEach(called.this, args, visited \cup {pending[1]}, fuel - 1)
    IN  IF pending = <<>> THEN Returned(this, <<>>, Undefined)
        ELSE IF fuel = 0 THEN Thrown(this, <<>>, Unfinished)
        ELSE IF called.err # "" THEN called
        ELSE [rest EXCEPT !.events = called.events \o @]

\* A dispatch loop that stops one entry short.
alertListeners_skipsLast(this, args) ==
    forEach(this, args,
            IF this.listeners = <<>> THEN {} ELSE {this.listeners[Len(this.listeners)]},
            MaxDispatch)

\* A dispatch over a copy of the listeners.
alertListeners_overCopy(this, args) ==
    forEach_overCopy(this, args,
                     [i \in 1..Len(this.listeners) |->
                         <<this.listeners[i], this.callbacks[this.listeners[i]]>>],
                     MaxDispatch)

\* A dispatch that isolates the listeners from each other's exceptions.
alertListeners_catching(this, args) == forEach_catching(this, args, {}, MaxDispatch)

\* this.listeners.forEach((callback) => callback(...args))
alertListeners(this, args) == forEach(this, args, {}, MaxDispatch)

\* What a method that made the store calls `call` and then alerted the
\* listeners ends with: the value, or what a listener threw.
Alerted(call, alerted, value) ==
    IF alerted.err # ""
    THEN Thrown(alerted.this, call \o alerted.events, alerted.err)
    ELSE Returned(alerted.this, call \o alerted.events, value)

\* A create that asks the store for an upsert, as update does.
create_upserting(this, type, properties, listenerArgs) ==
    LET c == RealmCreate(this.realm, type, properties, TRUE)
        after == [this EXCEPT !.realm = c.realm]
        object == RealmObject(type, c.row)
        call == <<StoreCall("create", type)>>
    IN  IF c.err # ""
        THEN Thrown(this, call, c.err)
        ELSE Alerted(call,
                 alertListeners(after,
                     <<Str(CHANGE_TYPES.CREATE), Str(type), object>> \o listenerArgs),
                 object)

create(this, type, properties, listenerArgs) ==
    LET c == RealmCreate(this.realm, type, properties, FALSE)
        after == [this EXCEPT !.realm = c.realm]
        object == RealmObject(type, c.row)
        call == <<StoreCall("create", type)>>
    IN  IF c.err # ""
        THEN Thrown(this, call, c.err)
        ELSE Alerted(call,
                 alertListeners(after,
                     <<Str(CHANGE_TYPES.CREATE), Str(type), object>> \o listenerArgs),
                 object)

objects(this, type) == this.realm.tables[type]

\* !primaryKey || primaryKey.length < 1
NoKey(primaryKey) == primaryKey \in {NULL, UNDEFINED, ""}

\* A get that queries the store whatever the key.
get_withoutGuard(this, type, primaryKey, primaryKeyField) ==
    LET results == RealmFiltered(objects(this, type), primaryKeyField, primaryKey)
    IN  Returned(this, <<StoreCall("objects", type)>>,
            IF Len(results) > 0 THEN RealmObject(type, results[1]) ELSE Null)

get(this, type, primaryKey, primaryKeyField) ==
    IF NoKey(primaryKey)
    THEN Returned(this, <<>>, Null)
    ELSE LET results == RealmFiltered(objects(this, type), primaryKeyField, primaryKey)
         IN  Returned(this, <<StoreCall("objects", type)>>,
                 IF Len(results) > 0 THEN RealmObject(type, results[1]) ELSE Null)

\* A getOrCreate that does not pass its extra arguments on to create.
getOrCreate_dropsArgs(this, type, primaryKey, primaryKeyField, listenerArgs) ==
    IF NoKey(primaryKey)
    THEN Returned(this, <<>>, Null)
    ELSE LET g == get(this, type, primaryKey, primaryKeyField)
             c == create(this, type, [f \in {primaryKeyField} |-> primaryKey], <<>>)
         IN  IF g.ret # Null THEN g ELSE [c EXCEPT !.events = g.events \o @]

\* A getOrCreate that creates without looking the record up first.
getOrCreate_withoutLookup(this, type, primaryKey, primaryKeyField, listenerArgs) ==
    IF NoKey(primaryKey)
    THEN Returned(this, <<>>, Null)
    ELSE create(this, type, [f \in {primaryKeyField} |-> primaryKey], listenerArgs)

getOrCreate(this, type, primaryKey, primaryKeyField, listenerArgs) ==
    IF NoKey(primaryKey)
    THEN Returned(this, <<>>, Null)
    ELSE LET g == get(this, type, primaryKey, primaryKeyField)
             c == create(this, type, [f \in {primaryKeyField} |-> primaryKey], listenerArgs)
         IN  IF g.ret # Null THEN g ELSE [c EXCEPT !.events = g.events \o @]

\* obj.id
IdOf(obj) == IF "id" \in DOMAIN obj.fields THEN obj.fields["id"] ELSE UNDEFINED

\* A forEach body that alerts with the object itself.
deleteEach_alertsWithObject(this, type, obj, listenerArgs) ==
    LET hook == IF HasDestructor(obj) THEN <<Destructor(obj)>> ELSE <<>>
    IN  IF HasDestructor(obj) /\ DestructorThrows(obj)
        THEN Thrown(this, hook, "DestructorError")
        ELSE Alerted(hook,
                 alertListeners(this,
                     <<Str(CHANGE_TYPES.DELETE), Str(type), obj>> \o listenerArgs),
                 Undefined)

\* A forEach body that alerts before it runs the destructor.
deleteEach_alertsFirst(this, type, obj, listenerArgs) ==
    LET record == Plain([id |-> IdOf(obj)])
        hook == IF HasDestructor(obj) THEN <<Destructor(obj)>> ELSE <<>>
        alerted == alertListeners(this,
                       <<Str(CHANGE_TYPES.DELETE), Str(type), record>> \o listenerArgs)
    IN  IF alerted.err # "" THEN alerted
        ELSE IF HasDestructor(obj) /\ DestructorThrows(obj)
        THEN Thrown(alerted.this, alerted.events \o hook, "DestructorError")
        ELSE Returned(alerted.this, alerted.events \o hook, Undefined)

\* The body of delete's forEach for one object: the record for the
\* listeners, the destructor, the alert.
deleteEach(this, type, obj, listenerArgs) ==
    LET record == Plain([id |-> IdOf(obj)])
        hook == IF HasDestructor(obj) THEN <<Destructor(obj)>> ELSE <<>>
    IN  IF HasDestructor(obj) /\ DestructorThrows(obj)
        THEN Thrown(this, hook, "DestructorError")
        ELSE Alerted(hook,
                 alertListeners(this,
                     <<Str(CHANGE_TYPES.DELETE), Str(type), record>> \o listenerArgs),
                 Undefined)

\* objects.forEach(obj => ...): an exception of a body ends the loop.
RECURSIVE deleteForEach(_, _, _, _)
deleteForEach(this, type, objs, listenerArgs) ==
    LET each == deleteEach(this, type, Head(objs), listenerArgs)
        rest == deleteForEach(each.this, type, Tail(objs), listenerArgs)
    IN  IF objs = <<>> THEN Returned(this, <<>>, Undefined)
        ELSE IF each.err # "" THEN each
        ELSE [rest EXCEPT !.events = each.events \o @]

\* A delete that treats an absent object as an empty collection.
delete_toleratesAbsent(this, type, object, listenerArgs) ==
    LET objs == CASE object.tag = "object" -> <<object>>
                  [] object.tag = "array" -> object.items
                  [] OTHER -> <<>>
        each == deleteForEach(this, type, objs, listenerArgs)
        d == RealmDelete(each.this.realm, objs)
        evs == each.events \o <<StoreCall("delete", "")>>
    IN  IF Len(objs) = 0 THEN Returned(this, <<>>, Undefined)
        ELSE IF each.err # "" THEN each
        ELSE IF d.err # "" THEN Thrown(each.this, evs, d.err)
        ELSE Returned([each.this EXCEPT !.realm = d.realm], evs, Undefined)

\* A delete that removes the objects from the store before it tells anyone.
delete_removesFirst(this, type, object, listenerArgs) ==
    IF object.tag \in {"null", "undefined"}
    THEN Thrown(this, <<>>, "TypeError")
    ELSE LET objs == IF object.tag = "object" THEN <<object>> ELSE object.items
             d == RealmDelete(this.realm, objs)
             call == <<StoreCall("delete", "")>>
             each == deleteForEach([this EXCEPT !.realm = d.realm], type, objs, listenerArgs)
         IN  IF Len(objs) = 0 THEN Returned(this, <<>>, Undefined)
             ELSE IF d.err # "" THEN Thrown(this, call, d.err)
             ELSE [each EXCEPT !.events = call \o @]

delete(this, type, object, listenerArgs) ==
    IF object.tag \in {"null", "undefined"}
    THEN Thrown(this, <<>>, "TypeError")
    ELSE LET objs == IF object.tag = "object" THEN <<object>> ELSE object.items
             each == deleteForEach(this, type, objs, listenerArgs)
             d == RealmDelete(each.this.realm, objs)
             evs == each.events \o <<StoreCall("delete", "")>>
         IN  IF Len(objs) = 0 THEN Returned(this, <<>>, Undefined)
             ELSE IF each.err # "" THEN each
             ELSE IF d.err # "" THEN Thrown(each.this, evs, d.err)
             ELSE Returned([each.this EXCEPT !.realm = d.realm], evs, Undefined)

\* A deleteAll that alerts once for every record it wipes.
deleteAll_alertsPerRecord(this, listenerArgs) ==
    LET d == RealmDeleteAll(this.realm)
        after == [this EXCEPT !.realm = d.realm]
        call == <<StoreCall("deleteAll", "")>>
        rows == Flatten([i \in 1..2 |-> this.realm.tables[IF i = 1 THEN "User" ELSE "Setting"]])
    IN  IF d.err # ""
        THEN Thrown(this, call, d.err)
        ELSE Returned(after,
                 call \o Flatten([i \in 1..Len(rows) |->
                     alertListeners(after, <<Str(CHANGE_TYPES.WIPE)>> \o listenerArgs).events]),
                 Undefined)

deleteAll(this, listenerArgs) ==
    LET d == RealmDeleteAll(this.realm)
        after == [this EXCEPT !.realm = d.realm]
        call == <<StoreCall("deleteAll", "")>>
    IN  IF d.err # ""
        THEN Thrown(this, call, d.err)
        ELSE Alerted(call,
                 alertListeners(after, <<Str(CHANGE_TYPES.WIPE)>> \o listenerArgs),
                 Undefined)

\* A save that writes the record back through update.
save_viaUpdate(this, type, object, listenerArgs) ==
    LET c == RealmCreate(this.realm, type, object.fields, TRUE)
        after == [this EXCEPT !.realm = c.realm]
        call == <<StoreCall("create", type)>>
    IN  IF c.err # ""
        THEN Thrown(this, call, c.err)
        ELSE Alerted(call,
                 alertListeners(after,
                     <<Str(CHANGE_TYPES.UPDATE), Str(type), object>> \o listenerArgs),
                 Undefined)

save(this, type, object, listenerArgs) ==
    Alerted(<<>>,
        alertListeners(this, <<Str(CHANGE_TYPES.UPDATE), Str(type), object>> \o listenerArgs),
        Undefined)

\* An update that reports CREATE when it made a new record.
update_reportsCreate(this, type, properties, listenerArgs) ==
    LET c == RealmCreate(this.realm, type, properties, TRUE)
        after == [this EXCEPT !.realm = c.realm]
        object == RealmObject(type, c.row)
        call == <<StoreCall("create", type)>>
        kind == IF RealmHas(this.realm, type, properties[PrimaryKeyOf(type)])
                THEN CHANGE_TYPES.UPDATE ELSE CHANGE_TYPES.CREATE
    IN  IF c.err # ""
        THEN Thrown(this, call, c.err)
        ELSE Alerted(call,
                 alertListeners(after, <<Str(kind), Str(type), object>> \o listenerArgs),
                 object)

\* An update that forgets the upsert flag.
update_withoutUpsert(this, type, properties, listenerArgs) ==
    LET c == RealmCreate(this.realm, type, properties, FALSE)
        after == [this EXCEPT !.realm = c.realm]
        object == RealmObject(type, c.row)
        call == <<StoreCall("create", type)>>
    IN  IF c.err # ""
        THEN Thrown(this, call, c.err)
        ELSE Alerted(call,
                 alertListeners(after,
                     <<Str(CHANGE_TYPES.UPDATE), Str(type), object>> \o listenerArgs),
                 object)

update(this, type, properties, listenerArgs) ==
    LET c == RealmCreate(this.realm, type, properties, TRUE)
        after == [this EXCEPT !.realm = c.realm]
        object == RealmObject(type, c.row)
        call == <<StoreCall("create", type)>>
    IN  IF c.err # ""
        THEN Thrown(this, call, c.err)
        ELSE Alerted(call,
                 alertListeners(after,
                     <<Str(CHANGE_TYPES.UPDATE), Str(type), object>> \o listenerArgs),
                 object)

\* The instance as the callback of write(callback) finds it: realm.write has
\* begun a transaction.
inWrite(this) == [this EXCEPT !.realm = RealmBegin(@)]

\* write(callback), given the outcome `ran` of the callback's whole run on
\* inWrite(this): realm.write commits when the callback returned, and rolls
\* back and rethrows when it threw; while the callback runs it does neither.
write(this, ran) ==
    IF this.realm.inTransaction
    THEN Thrown(this, <<>>, "AlreadyInTransaction")
    ELSE IF ran.err = Unfinished
    THEN ran
    ELSE IF ran.err # ""
    THEN [ran EXCEPT !.this.realm = RealmRollback(@, this.realm)]
    ELSE [ran EXCEPT !.this.realm = RealmCommit(@), !.ret = Undefined]

----------------------------------------------------------------------------
(* Settings                                                                 *)

Num(n) == [tag |-> "number", v |-> n]
Bool(b) == [tag |-> "boolean", v |-> b]

Digit(d) ==
    CASE d = 0 -> "0" [] d = 1 -> "1" [] d = 2 -> "2" [] d = 3 -> "3" [] d = 4 -> "4"
      [] d = 5 -> "5" [] d = 6 -> "6" [] d = 7 -> "7" [] d = 8 -> "8" [] d = 9 -> "9"

RECURSIVE NatToString(_)
NatToString(n) == IF n < 10 THEN Digit(n) ELSE NatToString(n \div 10) \o Digit(n % 10)

\* value.toString() of a string, a natural number or a boolean.
toString(value) ==
    CASE value.tag = "string" -> value.v
      [] value.tag = "number" -> NatToString(value.v)
      [] value.tag = "boolean" -> IF value.v THEN "true" ELSE "false"

Settings_set(database, key, value) ==
    LET db == inWrite(database)
    IN  write(database,
            IF value.tag \in {"null", "undefined"}
            THEN Thrown(db, <<>>, "TypeError")
            ELSE update(db, "Setting", [key |-> key, value |-> toString(value)], <<>>))

Settings_delete(database, key) ==
    LET db == inWrite(database)
        results == RealmFiltered(objects(db, "Setting"), "key", key)
        d == delete(db, "Setting", RealmObject("Setting", results[1]), <<>>)
    IN  write(database,
            IF Len(results) > 0
            THEN [d EXCEPT !.events = <<StoreCall("objects", "Setting")>> \o @]
            ELSE Returned(db, <<StoreCall("objects", "Setting")>>, Undefined))

Settings_get(database, key) ==
    LET results == RealmFiltered(objects(database, "Setting"), "key", key)
    IN  Returned(database, <<StoreCall("objects", "Setting")>>,
            Str(IF Len(results) > 0 THEN results[1].value ELSE ""))

----------------------------------------------------------------------------
(* The inputs of the calls                                                  *)

UserIds == {"1", "2"}
Usernames == {"a", "b"}
SettingKeys == {"k1", "k2"}
SettingValues == {Str("v"), Str(""), Num(42), Bool(TRUE), Null}

\* create and update of a User give the id, with or without a username; of a
\* Setting, both its fields (the schema has no default for value).
PropertiesOf(type) ==
    IF type = "User"
    THEN {[id |-> i] : i \in UserIds}
         \cup {[id |-> i, username |-> u] : i \in UserIds, u \in Usernames}
    ELSE {[key |-> "k1", value |-> "v"]}

\* The extra arguments after the standard ones.
ListenerArgs == {<<>>, <<Str("sync"), Str("x")>>}

\* The sequences without repetition of the elements of S.
Batches(S) ==
    {s \in UNION {[1..n -> S] : n \in 0..Cardinality(S)} :
        \A i, j \in DOMAIN s : i # j => s[i] # s[j]}

\* What a client passes to delete: a live object of the type, an array of
\* them, or nothing at all.
Deletable(r, type) ==
    LiveObjects(r, type) \cup {Array(s) : s \in Batches(LiveObjects(r, type))} \cup {Null}

\* The primary keys a client looks up, among them the empty and the absent one.
KeysOf(type) == IF type = "User" THEN UserIds \cup {"", NULL} ELSE {"k1", "", NULL}

----------------------------------------------------------------------------
(* The state machine                                                        *)

This == [realm |-> realm, listeners |-> listeners, callbacks |-> callbacks, nextId |-> nextId]

Init ==
    /\ realm = NewDatabase.realm
    /\ listeners = NewDatabase.listeners
    /\ callbacks = NewDatabase.callbacks
    /\ nextId = NewDatabase.nextId
    /\ last = [op |-> "constructor", ret |-> Undefined, err |-> ""]
    /\ events = <<>>

\* A call and its outcome become the new state.
Do(call, out) ==
    /\ realm' = out.this.realm
    /\ listeners' = out.this.listeners
    /\ callbacks' = out.this.callbacks
    /\ nextId' = out.this.nextId
    /\ last' = call @@ [ret |-> out.ret, err |-> out.err]
    /\ events' = out.events

\* Of a callback that records what it is called with.
AddListener ==
    /\ nextId <= MaxListeners
    /\ Do([op |-> "addListener", callback |-> Recorder], addListener(This, Recorder))

\* Of any id: one in use, one removed before, one no call ever returned.
RemoveListener ==
    \E id \in 1..(MaxListeners + 1) :
        /\ Do([op |-> "removeListener", id |-> id], removeListener(This, id))

GetIsEmpty ==
    /\ Do([op |-> "getIsEmpty"], getIsEmpty(This))

Create ==
    \E type \in Types : \E properties \in PropertiesOf(type) : \E listenerArgs \in ListenerArgs :
        /\ Do([op |-> "create", type |-> type, properties |-> properties,
               listenerArgs |-> listenerArgs],
              create(This, type, properties, listenerArgs))

Get ==
    \E type \in Types : \E primaryKey \in KeysOf(type) :
        /\ Do([op |-> "get", type |-> type, primaryKey |-> primaryKey],
              get(This, type, primaryKey, PrimaryKeyOf(type)))

\* Of a User only: a Setting has no default for its value.
GetOrCreate ==
    \E primaryKey \in KeysOf("User") : \E listenerArgs \in ListenerArgs :
        /\ Do([op |-> "getOrCreate", type |-> "User", primaryKey |-> primaryKey,
               listenerArgs |-> listenerArgs],
              getOrCreate(This, "User", primaryKey, "id", listenerArgs))

Delete ==
    \E type \in Types : \E object \in Deletable(realm, type) : \E listenerArgs \in ListenerArgs :
        /\ Do([op |-> "delete", type |-> type, object |-> object,
               listenerArgs |-> listenerArgs],
              delete(This, type, object, listenerArgs))

DeleteAll ==
    \E listenerArgs \in ListenerArgs :
        /\ Do([op |-> "deleteAll", listenerArgs |-> listenerArgs],
              deleteAll(This, listenerArgs))

Save ==
    \E type \in Types : \E object \in LiveObjects(realm, type) : \E listenerArgs \in ListenerArgs :
        /\ Do([op |-> "save", type |-> type, object |-> object,
               listenerArgs |-> listenerArgs],
              save(This, type, object, listenerArgs))

Update ==
    \E type \in Types : \E properties \in PropertiesOf(type) : \E listenerArgs \in ListenerArgs :
        /\ Do([op |-> "update", type |-> type, properties |-> properties,
               listenerArgs |-> listenerArgs],
              update(This, type, properties, listenerArgs))

\* write(callback) of a client whose callback returns: the callback's calls
\* are the actions above, taken between the transaction's begin and its commit.
WriteBegin ==
    /\ ~realm.inTransaction
    /\ realm' = RealmBegin(realm)
    /\ last' = [op |-> "write", ret |-> Undefined, err |-> ""]
    /\ events' = <<>>
    /\ UNCHANGED <<listeners, callbacks, nextId>>

WriteCommit ==
    /\ realm.inTransaction
    /\ realm' = RealmCommit(realm)
    /\ last' = [op |-> "commit", ret |-> Undefined, err |-> ""]
    /\ events' = <<>>
    /\ UNCHANGED <<listeners, callbacks, nextId>>

SettingsSet ==
    \E key \in SettingKeys : \E value \in SettingValues :
        /\ ~realm.inTransaction
        /\ Do([op |-> "Settings.set", key |-> key, value |-> value],
              Settings_set(This, key, value))

SettingsDelete ==
    \E key \in SettingKeys :
        /\ ~realm.inTransaction
        /\ Do([op |-> "Settings.delete", key |-> key], Settings_delete(This, key))

SettingsGet ==
    \E key \in SettingKeys :
        /\ Do([op |-> "Settings.get", key |-> key], Settings_get(This, key))

\* The Database and its clients.
Next ==
    \/ AddListener
    \/ RemoveListener
    \/ GetIsEmpty
    \/ Create
    \/ Get
    \/ GetOrCreate
    \/ Delete
    \/ DeleteAll
    \/ Save
    \/ Update
    \/ WriteBegin
    \/ WriteCommit

Spec == Init /\ [][Next]_vars

\* A Settings object on a Database of its own, and the listeners of that Database.
NextSettings ==
    \/ AddListener
    \/ RemoveListener
    \/ SettingsSet
    \/ SettingsDelete
    \/ SettingsGet

SpecSettings == Init /\ [][NextSettings]_vars

----------------------------------------------------------------------------
(* What the listeners observed                                              *)

Range(s) == {s[i] : i \in DOMAIN s}

\* The argument lists the listener was called with during the last call, in order.
ReceivedIn(evs, id) ==
    LET mine == SelectSeq(evs, LAMBDA e : e.ev = "notify" /\ e.listener = id)
    IN  [i \in 1..Len(mine) |-> mine[i].args]

Received(id) == ReceivedIn(events, id)

NotifiedIn(evs) == SelectSeq(evs, LAMBDA e : e.ev = "notify")

StoreCallsIn(evs, name) == SelectSeq(evs, LAMBDA e : e.ev = "store" /\ e.call = name)

KindOf(op) ==
    CASE op = "create" -> CHANGE_TYPES.CREATE
      [] op = "getOrCreate" -> CHANGE_TYPES.CREATE
      [] op = "update" -> CHANGE_TYPES.UPDATE
      [] op = "save" -> CHANGE_TYPES.UPDATE
      [] op = "delete" -> CHANGE_TYPES.DELETE
      [] op = "deleteAll" -> CHANGE_TYPES.WIPE

\* The records a delete call was given.
DeletedBy(call) ==
    CASE call.object.tag = "object" -> <<call.object>>
      [] call.object.tag = "array" -> call.object.items
      [] OTHER -> <<>>

----------------------------------------------------------------------------
(* C1                                                                       *)

----------------------------------------------------------------------------
(* C2                                                                       *)

\* C2: a getOrCreate call inside a write scope with a non-empty primary key
\* returns the record with that key: when the store holds none it creates it
\* and each registered listener receives exactly one CREATE notification
\* carrying the returned record; when the store holds one it returns that
\* one, notifies no listener and leaves the store alone. Two calls in a row
\* with the same key return the same record, and when the first one
\* created, the two together deliver exactly one notification to each
\* registered listener.
C2_GetOrCreateTwice ==
    [][(/\ last'.op = "getOrCreate"
        /\ ~NoKey(last'.primaryKey)
        /\ realm.inTransaction) =>
            LET key == last'.primaryKey
                type == last'.type
                found == RealmFiltered(realm.tables[type], PrimaryKeyOf(type), key)
            IN  /\ last'.err = ""
                /\ last'.ret.tag = "object"
                /\ last'.ret.type = type
                /\ last'.ret.fields[PrimaryKeyOf(type)] = key
                /\ IF found # <<>>
                   THEN /\ last'.ret = RealmObject(type, found[1])
                        /\ NotifiedIn(events') = <<>>
                        /\ realm' = realm
                   ELSE /\ \A i \in 1..Len(listeners) :
                            ReceivedIn(events', listeners[i]) =
                                << <<Str(CHANGE_TYPES.CREATE), Str(type), last'.ret>>
                                   \o last'.listenerArgs >>
                        /\ Len(NotifiedIn(events')) = Len(listeners)
                        /\ RealmHas(realm', type, key)
                /\ (/\ last.op = "getOrCreate"
                    /\ last.type = type
                    /\ last.primaryKey = key) =>
                        /\ last'.ret = last.ret
                        /\ \A i \in 1..Len(listeners) :
                            Len(ReceivedIn(events, listeners[i]))
                                + Len(ReceivedIn(events', listeners[i]))
                            = IF StoreCallsIn(events, "create") # <<>> THEN 1 ELSE 0
      ]_vars

\* A getOrCreate that found the placeholder an earlier call left, with two
\* listeners registered.
C2_Witness ==
    /\ realm.inTransaction
    /\ last.op = "getOrCreate"
    /\ last.primaryKey = "1"
    /\ last.ret = RealmObject("User", [id |-> "1", username |-> "placeholderUsername"])
    /\ StoreCallsIn(events, "create") = <<>>
    /\ NotifiedIn(events) = <<>>
    /\ Len(listeners) = 2

----------------------------------------------------------------------------
(* C3                                                                       *)

\* What Settings.get(key) returns on a store.
ValueRead(r, key) == Settings_get([NewDatabase EXCEPT !.realm = r], key).ret.v

\* The string form of the values given to Settings.set.
StringForm(value) ==
    CASE value = Str("v") -> "v"
      [] value = Str("") -> ""
      [] value = Num(42) -> "42"
      [] value = Bool(TRUE) -> "true"

OtherSettingsKept(key) ==
    \A k \in SettingKeys \ {key} : ValueRead(realm', k) = ValueRead(realm, k)

\* C3: Settings.get returns "" for every key at the start; a Settings.set
\* that returns makes get of its key return the string form of its value, a
\* Settings.delete makes get of its key return "", both leave every other
\* key's value as it was, and so does a Settings.set that throws (a value
\* without a string form) for every key; Settings.get returns the value and
\* changes nothing; and the store never holds two Setting records of one key.
C3_SettingsGetReturnsLastSet ==
    /\ \A k \in SettingKeys : ValueRead(realm, k) = ""
    /\ [][/\ \A k \in SettingKeys :
                Len(RealmFiltered(realm'.tables["Setting"], "key", k)) <= 1
          /\ CASE last'.op = "Settings.set" /\ last'.err = "" ->
                    /\ ValueRead(realm', last'.key) = StringForm(last'.value)
                    /\ OtherSettingsKept(last'.key)
               [] last'.op = "Settings.set" /\ last'.err # "" ->
                    /\ last'.value = Null
                    /\ realm' = realm
               [] last'.op = "Settings.delete" ->
                    /\ last'.err = ""
                    /\ ValueRead(realm', last'.key) = ""
                    /\ OtherSettingsKept(last'.key)
               [] last'.op = "Settings.get" ->
                    /\ last'.ret = Str(ValueRead(realm, last'.key))
                    /\ realm' = realm
               [] OTHER -> realm' = realm
      ]_vars

\* Settings.get reads back the string form of a number, with a second key set.
C3_Witness ==
    /\ last.op = "Settings.get"
    /\ last.key = "k1"
    /\ last.ret = Str("42")
    /\ ValueRead(realm, "k2") = "true"

----------------------------------------------------------------------------
(* C4                                                                       *)

\* C4: after a deleteAll call inside a write scope, whatever the store held,
\* the call has returned, each registered listener has received exactly one
\* notification, WIPE followed by the call's extra arguments, and
\* getIsEmpty returns true.
C4_DeleteAllWipesOnce ==
    (last.op = "deleteAll" /\ realm.inTransaction) =>
        /\ last.err = ""
        /\ \A i \in 1..Len(listeners) :
            Received(listeners[i]) = << <<Str(CHANGE_TYPES.WIPE)>> \o last.listenerArgs >>
        /\ Len(NotifiedIn(events)) = Len(listeners)
        /\ getIsEmpty(This).ret = Bool(TRUE)

\* A deleteAll with two listeners registered.
C4_Witness ==
    /\ last.op = "deleteAll"
    /\ realm.inTransaction
    /\ last.err = ""
    /\ Len(listeners) = 2
    /\ StoreCallsIn(events, "deleteAll") # <<>>
    /\ Len(NotifiedIn(events)) = 2

----------------------------------------------------------------------------
(* C5                                                                       *)

\* C5: a create call inside a write scope for a primary key the store already
\* holds for that type throws the store's ConstraintViolation, calls no
\* listener and leaves the store and the registry as they were.
C5_CreateOnExistingKeyFails ==
    [][(/\ last'.op = "create"
        /\ realm.inTransaction
        /\ RealmHas(realm, last'.type, last'.properties[PrimaryKeyOf(last'.type)])) =>
            /\ last'.err = "ConstraintViolation"
            /\ NotifiedIn(events') = <<>>
            /\ realm' = realm
            /\ listeners' = listeners
      ]_vars

\* A create that failed on an existing key, with a listener registered.
C5_Witness ==
    /\ last.op = "create"
    /\ last.err = "ConstraintViolation"
    /\ RealmHas(realm, last.type, last.properties[PrimaryKeyOf(last.type)])
    /\ events = <<StoreCall("create", last.type)>>
    /\ Len(listeners) >= 1

----------------------------------------------------------------------------
(* C6                                                                       *)

\* The row an upsert of the properties leaves: the given fields, and for the
\* others the existing row's values or, with no existing row, the default.
UpsertedRow(type, properties, found) ==
    [f \in FieldsOf(type) |->
        IF f \in DOMAIN properties THEN properties[f]
        ELSE IF found # <<>> THEN found[1][f]
        ELSE "placeholderUsername"]

----------------------------------------------------------------------------
(* C7                                                                       *)

\* C7 as stated: on an update of a record the store holds, inside a write
\* scope, the record every listener is given is the record as it was before
\* the update.
C7_ListenerGivenOldVersion ==
    [][(/\ last'.op = "update"
        /\ realm.inTransaction
        /\ RealmHas(realm, last'.type, last'.properties[PrimaryKeyOf(last'.type)])) =>
            LET type == last'.type
                found == RealmFiltered(realm.tables[type], PrimaryKeyOf(type),
                                       last'.properties[PrimaryKeyOf(type)])
                given == NotifiedIn(events')
            IN  \A n \in 1..Len(given) : given[n].args[3] = RealmObject(type, found[1])
      ]_vars

----------------------------------------------------------------------------
(* C8                                                                       *)

\* C8: in a delete call, for every record it was given, what each registered
\* listener receives as the record is a plain object whose only field is
\* id, and that field is the id of the record (absent when the record has
\* no field id), whatever else the record holds.
C8_DeleteShadowHasOnlyId ==
    last.op = "delete" =>
        \A i \in 1..Len(listeners) :
            LET got == Received(listeners[i])
                given == DeletedBy(last)
            IN  /\ Len(got) = Len(given)
                /\ \A n \in 1..Len(got) :
                    /\ got[n][3].tag = "plain"
                    /\ DOMAIN got[n][3].fields = {"id"}
                    /\ got[n][3].fields["id"] =
                        IF "id" \in DOMAIN given[n].fields
                        THEN given[n].fields["id"] ELSE UNDEFINED

\* A delete of a User that has a username, with a listener registered.
C8_Witness ==
    /\ last.op = "delete"
    /\ last.err = ""
    /\ last.object = RealmObject("User", [id |-> "1", username |-> "a"])
    /\ Len(listeners) >= 1
    /\ Received(listeners[1]) =
        << <<Str(CHANGE_TYPES.DELETE), Str("User"), Plain([id |-> "1"])>>
           \o last.listenerArgs >>

----------------------------------------------------------------------------
(* C9                                                                       *)

\* C9: every invocation of a listener in a create, update, delete, save or
\* getOrCreate call has as arguments the change kind, the record type and a
\* record, followed by exactly the extra arguments of the call, in the
\* call's order.
C9_ExtraArgumentsForwarded ==
    last.op \in {"create", "update", "delete", "save", "getOrCreate"} =>
        LET given == NotifiedIn(events)
        IN  \A n \in 1..Len(given) :
                LET args == given[n].args
                IN  /\ Len(args) = 3 + Len(last.listenerArgs)
                    /\ args[1] = Str(KindOf(last.op))
                    /\ args[2] = Str(last.type)
                    /\ args[3].tag \in {"object", "plain"}
                    /\ SubSeq(args, 4, Len(args)) = last.listenerArgs

\* A getOrCreate that created, with two extra arguments and two listeners.
C9_Witness ==
    /\ last.op = "getOrCreate"
    /\ last.listenerArgs = <<Str("sync"), Str("x")>>
    /\ Len(listeners) = 2
    /\ Len(NotifiedIn(events)) = 2
    /\ NotifiedIn(events)[2].args[5] = Str("x")

----------------------------------------------------------------------------
(* C10                                                                      *)

\* C10: a removeListener call never throws; with an id that is not in the
\* registry (never registered, or removed before) it leaves the registry as
\* it was, and with one that is it takes out that entry and no other; it
\* leaves the store alone; and a create, update or save that returns calls
\* exactly the listeners the registry holds.
C10_RemoveListenerIdempotent ==
    [][/\ last'.op = "removeListener" =>
            /\ last'.err = ""
            /\ realm' = realm
            /\ (\A i \in 1..Len(listeners) : listeners[i] # last'.id) =>
                    listeners' = listeners
            /\ listeners' = SelectSeq(listeners, LAMBDA l : l # last'.id)
       /\ (last'.op \in {"create", "update", "save"} /\ last'.err = "") =>
            {e.listener : e \in Range(NotifiedIn(events'))} = Range(listeners')
      ]_vars

\* A removeListener of an id no addListener ever returned, with two
\* listeners registered.
C10_Witness ==
    /\ last.op = "removeListener"
    /\ last.id >= nextId
    /\ last.err = ""
    /\ Len(listeners) = 2

----------------------------------------------------------------------------
(* C11                                                                      *)

\* C11: a get call with an empty or absent primary key returns null without
\* any call on the store; with a non-empty one it makes its query and
\* returns the record of the type whose primary key field holds that value,
\* or null when the store holds none; either way it throws nothing, notifies
\* no listener and leaves the store and the registry as they were.
C11_GetShortCircuits ==
    [][last'.op = "get" =>
        LET rows == realm.tables[last'.type]
            held == {i \in 1..Len(rows) :
                        rows[i][PrimaryKeyOf(last'.type)] = last'.primaryKey}
        IN  /\ last'.err = ""
            /\ NotifiedIn(events') = <<>>
            /\ realm' = realm
            /\ listeners' = listeners
            /\ IF last'.primaryKey \in {"", NULL}
               THEN last'.ret = Null /\ events' = <<>>
               ELSE /\ events' = <<StoreCall("objects", last'.type)>>
                    /\ IF held = {} THEN last'.ret = Null
                       ELSE \E i \in held : last'.ret = RealmObject(last'.type, rows[i])
      ]_vars

\* A get with the empty key on a store that holds records of the type, with
\* a listener registered.
C11_Witness ==
    /\ last.op = "get"
    /\ last.primaryKey = ""
    /\ last.ret = Null
    /\ events = <<>>
    /\ realm.tables[last.type] # <<>>
    /\ listeners # <<>>

----------------------------------------------------------------------------
(* C12                                                                      *)

\* C12: a save call throws nothing, makes no call on the store and leaves
\* the store and the registry as they were; each registered listener is
\* called exactly once, with UPDATE, the given type, the given record and
\* the extra arguments, and no one else is called.
C12_SaveOnlyNotifies ==
    [][last'.op = "save" =>
        /\ last'.err = ""
        /\ realm' = realm
        /\ listeners' = listeners
        /\ Len(events') = Len(listeners)
        /\ \A n \in 1..Len(events') : events'[n].ev = "notify"
        /\ \A i \in 1..Len(listeners) :
            ReceivedIn(events', listeners[i]) =
                << <<Str("update"), Str(last'.type), last'.object>> \o last'.listenerArgs >>
      ]_vars

\* A save outside any write scope, with two listeners.
C12_Witness ==
    /\ last.op = "save"
    /\ ~realm.inTransaction
    /\ Len(listeners) = 2
    /\ Len(NotifiedIn(events)) = 2

----------------------------------------------------------------------------
(* C13                                                                      *)

\* C13: a delete call given an empty collection, or null or undefined,
\* throws nothing, runs no destructor, notifies no listener and makes no
\* call on the store.
C13_DeleteOfNothingIsSilent ==
    (/\ last.op = "delete"
     /\ \/ last.object.tag \in {"null", "undefined"}
        \/ last.object = Array(<<>>)) =>
        /\ last.err = ""
        /\ events = <<>>

----------------------------------------------------------------------------
(* C14                                                                      *)

----------------------------------------------------------------------------
(* Listeners that throw, and that change the registry while they are called *)

\* The callbacks a client registers.
Callbacks ==
    {Recorder, Thrower, Adder, Replicator} \cup {Remover(id) : id \in 1..MaxListeners}

\* The User records a client passes to delete, each with a destructor that
\* returns or one that throws.
Doomed(r) ==
    LET marked == {o @@ [destructor |-> d] :
                      o \in LiveObjects(r, "User"), d \in {"returns", "throws"}}
    IN  {Array(s) : s \in {b \in Batches(marked) :
            /\ Len(b) >= 1
            /\ \A i, j \in DOMAIN b : i # j => b[i].fields # b[j].fields}}

\* A call whose dispatch pass goes on for ever never returns: nothing follows it.
Hung == last.err = Unfinished

\* The clients make their calls while the callbacks have registered no more
\* than one listener beyond the MaxListeners of the clients.
Quiet == ~Hung /\ nextId <= MaxListeners + 2

Register ==
    \E callback \in Callbacks :
        /\ ~Hung
        /\ nextId <= MaxListeners
        /\ Do([op |-> "addListener", callback |-> callback], addListener(This, callback))

Unregister ==
    \E id \in 1..MaxListeners :
        /\ ~Hung
        /\ Do([op |-> "removeListener", id |-> id], removeListener(This, id))

ScopeBegin == Quiet /\ WriteBegin

ScopeCommit == Quiet /\ WriteCommit

CreateUser ==
    \E id \in UserIds :
        /\ Quiet
        /\ Do([op |-> "create", type |-> "User", properties |-> [id |-> id]],
              create(This, "User", [id |-> id], <<>>))

UpdateUser ==
    \E id \in UserIds :
        /\ Quiet
        /\ Do([op |-> "update", type |-> "User", properties |-> [id |-> id]],
              update(This, "User", [id |-> id], <<>>))

DeleteUsers ==
    \E object \in Doomed(realm) :
        /\ Quiet
        /\ Do([op |-> "delete", type |-> "User", object |-> object],
              delete(This, "User", object, <<>>))

DeleteAllUsers ==
    /\ Quiet
    /\ Do([op |-> "deleteAll"], deleteAll(This, <<>>))

SaveUser ==
    \E object \in LiveObjects(realm, "User") :
        /\ Quiet
        /\ Do([op |-> "save", type |-> "User", object |-> object],
              save(This, "User", object, <<>>))

\* The Database and clients whose listeners and destructors may throw, and
\* whose listeners may register and remove listeners; a client that makes
\* its calls inside a write scope catches what they throw.
NextDispatch ==
    \/ Register
    \/ Unregister
    \/ ScopeBegin
    \/ ScopeCommit
    \/ CreateUser
    \/ UpdateUser
    \/ DeleteUsers
    \/ DeleteAllUsers
    \/ SaveUser

SpecDispatch == Init /\ [][NextDispatch]_vars

\* The registry is the Map it models: every key has its callback.
DispatchTypeOK ==
    /\ DOMAIN callbacks = Range(listeners)
    /\ \A i, j \in 1..Len(listeners) : i < j => listeners[i] < listeners[j]
    /\ \A i \in 1..Len(listeners) : listeners[i] < nextId

\* The methods that alert the listeners.
Alerting == {"create", "update", "delete", "deleteAll", "save"}

----------------------------------------------------------------------------
(* C15                                                                      *)

\* C15: in a create, update, delete, deleteAll or save call, the call of a
\* listener whose callback throws is the last thing the call does: no
\* listener is called after it, no call on the store follows, and the call
\* ends with the listener's exception; and a call that ends with a
\* listener's exception ends so.
C15_ThrowingListenerAbortsDispatch ==
    [][last'.op \in Alerting =>
        /\ \A n \in 1..Len(events') :
            (/\ events'[n].ev = "notify"
             /\ events'[n].listener \in DOMAIN callbacks
             /\ callbacks[events'[n].listener] = [kind |-> "throw"]) =>
                /\ n = Len(events')
                /\ last'.err = "ListenerError"
        /\ last'.err = "ListenerError" =>
            /\ events' # <<>>
            /\ events'[Len(events')].ev = "notify"
            /\ callbacks[events'[Len(events')].listener] = [kind |-> "throw"]
      ]_vars

\* A create inside a write scope, with a throwing listener registered before
\* a recording one: the first was called and the second was not.
C15_Witness ==
    /\ last.op = "create"
    /\ last.err = "ListenerError"
    /\ Len(listeners) = 2
    /\ callbacks[listeners[1]] = Thrower
    /\ callbacks[listeners[2]] = Recorder
    /\ Len(NotifiedIn(events)) = 1
    /\ NotifiedIn(events)[1].listener = listeners[1]

----------------------------------------------------------------------------
(* C16                                                                      *)

\* C16: with listeners that register and remove listeners while they are
\* called, a create, update, delete, deleteAll or save call ends; it throws
\* only what the store, a throwing listener or a throwing destructor threw;
\* and when it returns, every listener that was in the registry before the
\* call and still is after it was called exactly once in each dispatch pass
\* of the call (one pass; for delete, one per record).
C16_RegistryChangesDuringDispatch ==
    [][last'.op \in Alerting =>
        LET passes == IF last'.op = "delete" THEN Len(DeletedBy(last')) ELSE 1
        IN  /\ last'.err # Unfinished
            /\ last'.err \in {"", Unfinished, "ListenerError", "DestructorError",
                              "NotInTransaction", "ConstraintViolation"}
            /\ last'.err = "" =>
                \A id \in Range(listeners) \cap Range(listeners') :
                    Len(ReceivedIn(events', id)) = passes
      ]_vars

\* C16 without the claim that the pass ends: what holds of the passes that do.
C16_PassesThatEnd ==
    [][last'.op \in Alerting =>
        LET passes == IF last'.op = "delete" THEN Len(DeletedBy(last')) ELSE 1
        IN  /\ last'.err \in {"", Unfinished, "ListenerError", "DestructorError",
                              "NotInTransaction", "ConstraintViolation"}
            /\ last'.err = "" =>
                \A id \in Range(listeners) \cap Range(listeners') :
                    Len(ReceivedIn(events', id)) = passes
      ]_vars

----------------------------------------------------------------------------
(* C18                                                                      *)

\* C18: a listener is never called after a removeListener call that took it
\* out of the registry has returned: not in a later call (every listener a
\* call calls is in the registry when the call begins, or was registered
\* during the call), and not in the rest of the call during which another
\* listener removed it.
C18_RemovedListenerNeverInvoked ==
    [][\A n \in 1..Len(events') :
        events'[n].ev = "notify" =>
            /\ events'[n].listener < nextId => events'[n].listener \in Range(listeners)
            /\ \A m \in 1..(n - 1) :
                ~(/\ events'[m].ev = "removeListener"
                  /\ events'[m].found
                  /\ events'[m].id = events'[n].listener)
      ]_vars

\* A create during which the first listener removed the second, which was
\* in the registry and had not been called yet: the create returned and the
\* second listener was not called.
C18_Witness ==
    /\ last.op = "create"
    /\ last.err = ""
    /\ \E n \in 1..Len(events) :
        /\ events[n].ev = "removeListener"
        /\ events[n].found
        /\ events[n - 1].ev = "notify"
        /\ events[n - 1].listener < events[n].id
        /\ ReceivedIn(events, events[n].id) = <<>>
        /\ events[n].id \notin Range(listeners)

----------------------------------------------------------------------------
(* C19                                                                      *)

\* C19: a delete call during which a listener or a destructor throws makes
\* no call of the store's delete and leaves every record in the store, after
\* the destructors and notifications of the records before the throw.
C19_ThrowDuringDeleteRemovesNothing ==
    [][(last'.op = "delete" /\ last'.err \in {"ListenerError", "DestructorError"}) =>
        /\ StoreCallsIn(events', "delete") = <<>>
        /\ realm' = realm
      ]_vars

\* A delete of two records inside a write scope, with a recording listener:
\* the first record's destructor ran and its notification was delivered, the
\* second record's destructor threw, and both records are still in the store.
C19_Witness ==
    /\ last.op = "delete"
    /\ last.err = "DestructorError"
    /\ realm.inTransaction
    /\ Len(DeletedBy(last)) = 2
    /\ Len(events) = 3
    /\ events[1].ev = "destructor"
    /\ events[2].ev = "notify"
    /\ events[3].ev = "destructor"
    /\ Len(realm.tables["User"]) = 2

----------------------------------------------------------------------------
(* Write scopes that fail                                                   *)

\* The number of calls the callback of one write scope makes.
MaxCalls == 2

\* The statements of a client's callback: calls of create, update and
\* delete (of the record get finds, if any) on a User, and a throw.
Statements ==
    {[op |-> o, id |-> i] : o \in {"create", "update", "delete"}, i \in UserIds}
        \cup {[op |-> "throw"]}

Programs == UNION {[1..n -> Statements] : n \in 1..MaxCalls}

statement(this, s) ==
    CASE s.op = "create" -> create(this, "User", [id |-> s.id], <<>>)
      [] s.op = "update" -> update(this, "User", [id |-> s.id, username |-> "a"], <<>>)
      [] s.op = "delete" ->
            LET g == get(this, "User", s.id, "id")
                d == delete(this, "User", g.ret, <<>>)
            IN  IF g.ret = Null THEN g ELSE [d EXCEPT !.events = g.events \o @]
      [] s.op = "throw" -> Thrown(this, <<>>, "ClientError")

\* The callback's run: its statements in order, up to the first that throws.
RECURSIVE run(_, _)
run(this, statements) ==
    LET first == statement(this, Head(statements))
        rest == run(first.this, Tail(statements))
    IN  IF statements = <<>> THEN Returned(this, <<>>, Undefined)
        ELSE IF first.err # "" THEN first
        ELSE [rest EXCEPT !.events = first.events \o @]

\* write(callback)
Write ==
    \E callback \in Programs :
        /\ ~realm.inTransaction
        /\ Do([op |-> "write", callback |-> callback],
              write(This, run(inWrite(This), callback)))

\* The Database and clients whose write scopes may fail.
NextWrite ==
    \/ AddListener
    \/ Write

SpecWrite == Init /\ [][NextWrite]_vars

----------------------------------------------------------------------------
(* C17                                                                      *)

\* The last notification of the scope about the User of this id, <<>> if none.
LastAbout(id) ==
    LET about == SelectSeq(NotifiedIn(events), LAMBDA e :
                     /\ e.args[3].tag \in {"object", "plain"}
                     /\ "id" \in DOMAIN e.args[3].fields
                     /\ e.args[3].fields.id = id)
    IN  IF about = <<>> THEN <<>> ELSE about[Len(about)].args

\* C17: when a write scope has ended, the notifications delivered during it
\* tell of changes that are in the store: after a rollback none was
\* delivered, and after a commit the last notification about a record says
\* CREATE or UPDATE with the record as the store holds it, or DELETE of a
\* record the store does not hold.
C17_NotifiedOnlyOfPersistedMutations ==
    last.op = "write" =>
        /\ last.err # "" => NotifiedIn(events) = <<>>
        /\ last.err = "" =>
            \A id \in UserIds :
                LET told == LastAbout(id)
                IN  \/ told = <<>>
                    \/ /\ told[1] \in {Str("create"), Str("update")}
                       /\ told[3] \in LiveObjects(realm, "User")
                    \/ /\ told[1] = Str("delete")
                       /\ \A o \in LiveObjects(realm, "User") : o.fields.id # id

\* C17 for the scopes that commit.
C17_CommittedScopes ==
    (last.op = "write" /\ last.err = "") =>
        \A id \in UserIds :
            LET told == LastAbout(id)
            IN  \/ told = <<>>
                \/ /\ told[1] \in {Str("create"), Str("update")}
                   /\ told[3] \in LiveObjects(realm, "User")
                \/ /\ told[1] = Str("delete")
                   /\ \A o \in LiveObjects(realm, "User") : o.fields.id # id

----------------------------------------------------------------------------
(* C20                                                                      *)

\* C20: a Settings.delete call with a key the store holds a setting for
\* removes that setting and delivers to each registered listener exactly one
\* notification, DELETE of type 'Setting', whose record holds the key of
\* the deleted setting; with a key the store holds no setting for, it
\* notifies no one and changes nothing.
C20_SettingsDeleteIdentifiesKey ==
    [][last'.op = "Settings.delete" =>
        IF \E i \in 1..Len(realm.tables["Setting"]) :
               realm.tables["Setting"][i].key = last'.key
        THEN /\ \A i \in 1..Len(realm'.tables["Setting"]) :
                    realm'.tables["Setting"][i].key # last'.key
             /\ \A i \in 1..Len(listeners) :
                    LET got == ReceivedIn(events', listeners[i])
                    IN  /\ Len(got) = 1
                        /\ got[1][1] = Str("delete")
                        /\ got[1][2] = Str("Setting")
                        /\ \E f \in DOMAIN got[1][3].fields :
                               got[1][3].fields[f] = last'.key
        ELSE /\ NotifiedIn(events') = <<>>
             /\ realm' = realm
      ]_vars

\* C20 without the key in the record: what holds of Settings.delete.
C20_SettingsDeleteNotifiesOnce ==
    [][last'.op = "Settings.delete" =>
        IF \E i \in 1..Len(realm.tables["Setting"]) :
               realm.tables["Setting"][i].key = last'.key
        THEN /\ \A i \in 1..Len(realm'.tables["Setting"]) :
                    realm'.tables["Setting"][i].key # last'.key
             /\ \A i \in 1..Len(listeners) :
                    LET got == ReceivedIn(events', listeners[i])
                    IN  /\ Len(got) = 1
                        /\ got[1][1] = Str("delete")
                        /\ got[1][2] = Str("Setting")
                        /\ got[1][3] = Plain([id |-> UNDEFINED])
        ELSE /\ NotifiedIn(events') = <<>>
             /\ realm' = realm
      ]_vars

====
